---------------------------- MODULE Spec2Model ----------------------------
(***************************************************************************)
(* Warehouse order API (server.js): the orders file, the CRUD handlers of  *)
(* /orders, and the picking and packing views.                             *)
(*                                                                         *)
(* JavaScript strings that the code parses or builds (order_id,            *)
(* line_item_id, order_date) are sequences of one-character strings;       *)
(* strings the code only copies (customer fields, product ids and names)   *)
(* are TLA+ strings.  A JavaScript number is [nan, v]: NaN, or the integer *)
(* v.  An object is a function from its keys; an absent key is not in the  *)
(* DOMAIN (JSON.stringify drops undefined-valued keys).                    *)
(***************************************************************************)
EXTENDS Integers, Sequences, FiniteSets, TLC

VARIABLES
    ordersFile,      \* content of orders.json: [parses, orders]
    productMapping,  \* product_mapping.json as loaded at start
    now,             \* the clock read by new Date()
    served,          \* number of create/update/delete requests handled
    last,            \* the last request and its response
    origin,          \* history: per stored order, its creation serial and date
    assigned,        \* history: the order_ids create has returned, in order
    created,         \* history: number of orders created
    conc             \* the two concurrently handled update requests

vars == <<ordersFile, productMapping, now, served, last, origin, assigned,
          created, conc>>

\* ------------------------------------------------------------------ bounds

\* Number of create/update/delete requests in one behaviour.
MaxRequests == 3

\* Last instant of the clock.
MaxTime == 1

\* ------------------------------------------------------- JavaScript values

Num(n) == [nan |-> FALSE, v |-> n]

NaN == [nan |-> TRUE, v |-> 0]

\* Math.max(a, b): NaN if either argument is NaN.
MathMax(a, b) ==
    IF a.nan \/ b.nan THEN NaN ELSE IF a.v >= b.v THEN a ELSE b

\* x + 1 and x++ on a number.
PlusOne(a) == IF a.nan THEN NaN ELSE Num(a.v + 1)

DigitChars == <<"0", "1", "2", "3", "4", "5", "6", "7", "8", "9">>

IsDigit(c) == \E d \in 1..10 : DigitChars[d] = c

DigitVal(c) == (CHOOSE d \in 1..10 : DigitChars[d] = c) - 1

RECURSIVE NatToString(_)
NatToString(n) ==
    IF n < 10 THEN <<DigitChars[n + 1]>>
    ELSE NatToString(n \div 10) \o <<DigitChars[(n % 10) + 1]>>

\* Number.prototype.toString() and the `${n}` of a template literal.
NumberToString(a) ==
    IF a.nan THEN <<"N", "a", "N">>
    ELSE IF a.v < 0 THEN <<"-">> \o NatToString(0 - a.v)
    ELSE NatToString(a.v)

RECURSIVE TrimStart(_)
TrimStart(s) ==
    IF s # <<>> /\ Head(s) = " " THEN TrimStart(Tail(s)) ELSE s

RECURSIVE DigitPrefix(_)
DigitPrefix(s) ==
    IF s # <<>> /\ IsDigit(Head(s)) THEN <<Head(s)>> \o DigitPrefix(Tail(s))
    ELSE <<>>

RECURSIVE DigitsValue(_, _)
DigitsValue(s, acc) ==
    IF s = <<>> THEN acc ELSE DigitsValue(Tail(s), acc * 10 + DigitVal(Head(s)))

\* parseInt(s, 10): leading blanks, an optional sign, then the longest run of
\* digits; NaN when there is no digit.
ParseInt(s) ==
    LET t == TrimStart(s)
        signed == t # <<>> /\ Head(t) \in {"-", "+"}
        u == IF signed THEN Tail(t) ELSE t
        ds == DigitPrefix(u)
    IN  IF ds = <<>> THEN NaN
        ELSE IF signed /\ Head(t) = "-" THEN Num(0 - DigitsValue(ds, 0))
        ELSE Num(DigitsValue(ds, 0))

\* s.replace('LI-', ''): the first occurrence of "LI-" removed.
ReplaceLI(s) ==
    LET at == {i \in 1..Len(s) - 2 : SubSeq(s, i, i + 2) = <<"L", "I", "-">>}
    IN  IF at = {} THEN s
        ELSE LET i == CHOOSE j \in at : \A k \in at : j <= k
             IN  SubSeq(s, 1, i - 1) \o SubSeq(s, i + 3, Len(s))

\* { ...a, ...b }
Spread(a, b) ==
    [k \in DOMAIN a \cup DOMAIN b |-> IF k \in DOMAIN b THEN b[k] ELSE a[k]]

\* The keys of `keys` that object a defines.
Pick(a, keys) == [k \in DOMAIN a \cap keys |-> a[k]]

\* new Date().toISOString() at instant t.
ToISOString(t) == <<"T">> \o NatToString(t)

\* ------------------------------------------------------------ the orders file

\* loadOrders(): the parsed file, or [] when reading or parsing throws.
LoadOrders == IF ordersFile.parses THEN ordersFile.orders ELSE <<>>

\* How fs.writeFileSync ends: it writes the file; it throws before the file is
\* opened; or it throws after the open truncated the file.
WriteOutcomes == {"written", "unopened", "truncated"}

\* a write that cannot fail
SaveOrdersRegardless(orders, w) == [parses |-> TRUE, orders |-> orders]

\* saveOrders(orders): the file afterwards; an exception is caught and logged.
SaveOrders(orders, w) ==
    CASE w = "written" -> [parses |-> TRUE, orders |-> orders]
      [] w = "unopened" -> ordersFile
      [] w = "truncated" -> [parses |-> FALSE, orders |-> <<>>]

\* The history that goes with the file saveOrders leaves.
SavedOrigin(o, w) ==
    CASE w = "written" -> o
      [] w = "unopened" -> origin
      [] w = "truncated" -> <<>>

\* orders.findIndex(o => o.order_id === id); 0 stands for -1.
FindIndex(orders, id) ==
    LET at == {i \in 1..Len(orders) : orders[i].order_id = id}
    IN  IF at = {} THEN 0 ELSE CHOOSE i \in at : \A k \in at : i <= k

NotFound == [message |-> "Order not found"]

\* ------------------------------------------------------------ create

RECURSIVE MaxOrderId(_, _)
\* orders.reduce((max, order) => Math.max(max, parseInt(order.order_id, 10)), max)
MaxOrderId(orders, max) ==
    IF orders = <<>> THEN max
    ELSE MaxOrderId(Tail(orders), MathMax(max, ParseInt(Head(orders).order_id)))

NewOrderId(orders) == NumberToString(PlusOne(MaxOrderId(orders, Num(0))))

\* total = item.price || 0: the price of the last line item, nothing added up
OrderTotalNoAccumulate(items, total) ==
    IF items = <<>> THEN total
    ELSE IF "price" \in DOMAIN items[Len(items)] THEN items[Len(items)].price
    ELSE 0

RECURSIVE OrderTotal(_, _)
\* line_items.reduce((total, item) => total + (item.price || 0), total)
OrderTotal(items, total) ==
    IF items = <<>> THEN total
    ELSE OrderTotal(Tail(items),
            total + (IF "price" \in DOMAIN Head(items) /\ Head(items).price # 0
                     THEN Head(items).price ELSE 0))

\* JavaScript truthiness of item.line_item_id.
HasLineItemId(item) ==
    "line_item_id" \in DOMAIN item /\ item.line_item_id # <<>>

RECURSIVE MaxItemOfOrder(_, _)
\* the inner reduce of maxLineItemId over one order's line items
MaxItemOfOrder(items, maxItem) ==
    IF items = <<>> THEN maxItem
    ELSE LET li == Head(items)
             num == IF HasLineItemId(li)
                    THEN ParseInt(ReplaceLI(li.line_item_id)) ELSE Num(0)
         IN  MaxItemOfOrder(Tail(items), MathMax(maxItem, num))

RECURSIVE MaxLineItemId(_, _)
\* the outer reduce of maxLineItemId over the orders
MaxLineItemId(orders, max) ==
    IF orders = <<>> THEN max
    ELSE LET items == IF "line_items" \in DOMAIN Head(orders)
                      THEN Head(orders).line_items ELSE <<>>
         IN  MaxLineItemId(Tail(orders),
                MathMax(max, MaxItemOfOrder(items, Num(0))))

RECURSIVE NewLineItems(_, _)
\* newOrderData.line_items.map(...) with the running maxLineItemId
NewLineItems(items, maxLineItemId) ==
    IF items = <<>> THEN <<>>
    ELSE IF ~HasLineItemId(Head(items))
    THEN LET n == PlusOne(maxLineItemId)
             id == <<"L", "I", "-">> \o NumberToString(n)
         IN  <<Spread(Head(items), [line_item_id |-> id])>>
             \o NewLineItems(Tail(items), n)
    ELSE <<Head(items)>> \o NewLineItems(Tail(items), maxLineItemId)

\* The newOrder object as JSON carries it.
NewOrder(orders, body, t) ==
    Spread([order_id |-> NewOrderId(orders),
            order_total |-> OrderTotal(body.line_items, 0),
            order_date |-> ToISOString(t),
            line_items |-> NewLineItems(body.line_items,
                                        MaxLineItemId(orders, Num(0)))],
           Pick(body, {"shipping_address", "customer_name", "customer_email"}))


\* ------------------------------------------------------------ update, delete

\* the merge with order_total recomputed from the line_items of the body
MergedRecomputed(order, body) ==
    IF "line_items" \in DOMAIN body
    THEN Spread(Spread(order, body),
                [order_total |-> OrderTotal(body.line_items, 0)])
    ELSE Spread(order, body)

\* { ...orders[index], ...req.body }
MergedOrder(order, body) == Spread(order, body)

\* orders after orders[index] = merged
SetAt(orders, index, merged) ==
    [i \in 1..Len(orders) |-> IF i = index THEN merged ELSE orders[i]]

\* orders after orders.splice(index, 1)
Splice(orders, index) ==
    SubSeq(orders, 1, index - 1) \o SubSeq(orders, index + 1, Len(orders))

\* ------------------------------------------------------------ picking, packing

\* aggregated[name] = 1: a product is listed once, never counted up
CountOnce(aggregated, name) ==
    IF \E i \in 1..Len(aggregated) : aggregated[i].product_name = name
    THEN aggregated
    ELSE Append(aggregated, [product_name |-> name, quantity |-> 1])

\* aggregated[name] = (aggregated[name] || 0) + 1, the object's entries kept
\* in insertion order
CountOne(aggregated, name) ==
    IF \E i \in 1..Len(aggregated) : aggregated[i].product_name = name
    THEN [i \in 1..Len(aggregated) |->
            IF aggregated[i].product_name = name
            THEN [aggregated[i] EXCEPT !.quantity = @ + 1]
            ELSE aggregated[i]]
    ELSE Append(aggregated, [product_name |-> name, quantity |-> 1])

RECURSIVE CountProducts(_, _)
\* mapping.products.forEach(product => ...)
CountProducts(products, aggregated) ==
    IF products = <<>> THEN aggregated
    ELSE CountProducts(Tail(products),
                       CountOne(aggregated, Head(products).product_name))

\* productMapping[lineItem.product_id] has a products list
HasProducts(mapping, lineItem) ==
    /\ "product_id" \in DOMAIN lineItem
    /\ lineItem.product_id \in DOMAIN mapping
    /\ "products" \in DOMAIN mapping[lineItem.product_id]

RECURSIVE CountLineItems(_, _, _)
\* (order.line_items || []).forEach(lineItem => ...)
CountLineItems(items, mapping, aggregated) ==
    IF items = <<>> THEN aggregated
    ELSE CountLineItems(Tail(items), mapping,
            IF HasProducts(mapping, Head(items))
            THEN CountProducts(mapping[Head(items).product_id].products,
                               aggregated)
            ELSE aggregated)

RECURSIVE PickingList(_, _, _)
\* orders.forEach(order => ...), then Object.entries(aggregated)
PickingList(orders, mapping, aggregated) ==
    IF orders = <<>> THEN aggregated
    ELSE PickingList(Tail(orders), mapping,
            CountLineItems(IF "line_items" \in DOMAIN Head(orders)
                           THEN Head(orders).line_items ELSE <<>>,
                           mapping, aggregated))

\* { ...lineItem, products: mapping ? mapping.products : [] }
DetailedLineItem(mapping, lineItem) ==
    IF "product_id" \in DOMAIN lineItem /\ lineItem.product_id \in DOMAIN mapping
    THEN Spread(lineItem, Pick(mapping[lineItem.product_id], {"products"}))
    ELSE Spread(lineItem, [products |-> <<>>])

\* { ...order, line_items: detailedLineItems }
DetailedOrder(mapping, order) ==
    LET items == IF "line_items" \in DOMAIN order THEN order.line_items ELSE <<>>
    IN  Spread(order,
               [line_items |-> [i \in 1..Len(items) |->
                                   DetailedLineItem(mapping, items[i])]])

PackingView(orders, mapping) ==
    [i \in 1..Len(orders) |-> DetailedOrder(mapping, orders[i])]


\* ------------------------------------------------------------ requests

\* Line items a create or update body carries.
Boxed == [product_id |-> "BOX", price |-> 2]

Kit == [product_id |-> "KIT"]

Labelled == [product_id |-> "BOX", price |-> 1, line_item_id |-> <<"L", "I", "-", "1">>]

Odd == [product_id |-> "UNK", price |-> 0, line_item_id |-> <<"x">>]

Customer ==
    [shipping_address |-> "addr", customer_name |-> "name",
     customer_email |-> "a@x"]

\* Bodies of POST /orders; the last one has no line_items.
CreateBodies ==
    {Spread(Customer, [line_items |-> <<Kit, Boxed>>]),
     [customer_name |-> "name", line_items |-> <<Labelled, Kit>>],
     [line_items |-> <<Odd>>, order_id |-> <<"9">>],
     [customer_name |-> "name"]}

\* Bodies of PUT /orders/:orderId.
UpdateBodies ==
    {[customer_email |-> "b@x"],
     [line_items |-> <<Boxed>>],
     [order_id |-> <<"2">>],
     [order_id |-> <<"-", "1">>],
     [order_id |-> <<"x">>],
     [order_date |-> <<"T", "9">>],
     [order_total |-> 9, note |-> "n"]}

\* The :orderId of a request: an id of the store, or one no order has.
ReqIds(orders) == {orders[i].order_id : i \in 1..Len(orders)} \cup {<<"0">>}

SampleMapping ==
    [BOX |-> [products |-> <<[product_name |-> "Widget"]>>],
     KIT |-> [products |-> <<[product_name |-> "Widget"],
                             [product_name |-> "Gadget"],
                             [product_name |-> "Widget"]>>]]

\* Contents of product_mapping.json; the empty object when loading it failed.
Mappings ==
    {SampleMapping,
     [BOX |-> [products |-> <<[product_name |-> "Gadget"]>>],
      KIT |-> [label |-> "kit"]],
     [k \in {} |-> 0]}

NoRequest ==
    [op |-> "none", orderId |-> <<>>, body |-> <<>>, status |-> 0, out |-> <<>>,
     pre |-> <<>>, write |-> "none", before |-> [parses |-> TRUE, orders |-> <<>>]]

Idle == [p \in {1, 2} |-> [pc |-> "idle", orderId |-> <<>>, body |-> <<>>,
                           orders |-> <<>>, index |-> 0]]

Init ==
    /\ ordersFile = [parses |-> TRUE, orders |-> <<>>]
    /\ productMapping = SampleMapping
    /\ now = 0
    /\ served = 0
    /\ last = NoRequest
    /\ origin = <<>>
    /\ assigned = <<>>
    /\ created = 0
    /\ conc = [log |-> <<>>, proc |-> Idle, pre |-> <<>>]

\* What a request records: the request, the response, the orders it loaded,
\* how its write ended and the file before it.
Served(op, orderId, body, status, out, w) ==
    [op |-> op, orderId |-> orderId, body |-> body, status |-> status,
     out |-> out, pre |-> LoadOrders, write |-> w, before |-> ordersFile]

\* Time passes.
Tick ==
    /\ now < MaxTime
    /\ now' = now + 1
    /\ UNCHANGED <<ordersFile, productMapping, served, last, origin, assigned,
                   created, conc>>

\* GET /orders
ListOrders ==
    /\ last' = Served("list", <<>>, <<>>, 200, LoadOrders, "none")
    /\ UNCHANGED <<ordersFile, productMapping, now, served, origin, assigned,
                   created, conc>>

\* GET /orders/:orderId
GetOrder(id) ==
    /\ LET orders == LoadOrders
           index == FindIndex(orders, id)
       IN  last' = IF index = 0
                   THEN Served("get", id, <<>>, 404, NotFound, "none")
                   ELSE Served("get", id, <<>>, 200, orders[index], "none")
    /\ UNCHANGED <<ordersFile, productMapping, now, served, origin, assigned,
                   created, conc>>

\* POST /orders; w is how the write of the file ends.
CreateOrder(body, w) ==
    /\ served < MaxRequests
    /\ served' = served + 1
    /\ LET orders == LoadOrders
       IN  IF "line_items" \notin DOMAIN body
           THEN \* newOrderData.line_items.reduce throws: the framework answers 500
                /\ last' = Served("create", <<>>, body, 500, <<>>, "none")
                /\ UNCHANGED <<ordersFile, origin, assigned, created>>
           ELSE LET newOrder == NewOrder(orders, body, now)
                IN  /\ ordersFile' = SaveOrders(Append(orders, newOrder), w)
                    /\ last' = Served("create", <<>>, body, 201, newOrder, w)
                    /\ origin' = SavedOrigin(
                          Append(origin, [serial |-> created + 1,
                                          date |-> newOrder.order_date]), w)
                    /\ assigned' = Append(assigned, newOrder.order_id)
                    /\ created' = created + 1
    /\ UNCHANGED <<productMapping, now, conc>>

\* PUT /orders/:orderId
UpdateOrder(id, body, w) ==
    /\ served < MaxRequests
    /\ served' = served + 1
    /\ LET orders == LoadOrders
           index == FindIndex(orders, id)
       IN  IF index = 0
           THEN \* answered before req.body is read
                /\ last' = Served("update", id, <<>>, 404, NotFound, "none")
                /\ UNCHANGED <<ordersFile, origin>>
           ELSE LET merged == MergedOrder(orders[index], body)
                IN  /\ ordersFile' = SaveOrders(SetAt(orders, index, merged), w)
                    /\ last' = Served("update", id, body, 200, merged, w)
                    /\ origin' = SavedOrigin(origin, w)
    /\ UNCHANGED <<productMapping, now, assigned, created, conc>>

\* DELETE /orders/:orderId
DeleteOrder(id, w) ==
    /\ served < MaxRequests
    /\ served' = served + 1
    /\ LET orders == LoadOrders
           index == FindIndex(orders, id)
       IN  IF index = 0
           THEN /\ last' = Served("delete", id, <<>>, 404, NotFound, "none")
                /\ UNCHANGED <<ordersFile, origin>>
           ELSE /\ ordersFile' = SaveOrders(Splice(orders, index), w)
                /\ last' = Served("delete", id, <<>>, 200, orders[index], w)
                /\ origin' = SavedOrigin(Splice(origin, index), w)
    /\ UNCHANGED <<productMapping, now, assigned, created, conc>>

\* GET /picking
Picking ==
    /\ last' = Served("picking", <<>>, <<>>, 200,
                      PickingList(LoadOrders, productMapping, <<>>), "none")
    /\ UNCHANGED <<ordersFile, productMapping, now, served, origin, assigned,
                   created, conc>>

\* GET /packing
Packing ==
    /\ last' = Served("packing", <<>>, <<>>, 200,
                      PackingView(LoadOrders, productMapping), "none")
    /\ UNCHANGED <<ordersFile, productMapping, now, served, origin, assigned,
                   created, conc>>

\* One server process, the file system working: each handler runs to its end
\* (the file is read and written synchronously) before the next request.
Next ==
    \/ Tick
    \/ ListOrders
    \/ \E id \in ReqIds(LoadOrders) : GetOrder(id)
    \/ \E body \in CreateBodies : CreateOrder(body, "written")
    \/ \E id \in ReqIds(LoadOrders), body \in UpdateBodies :
          UpdateOrder(id, body, "written")
    \/ \E id \in ReqIds(LoadOrders) : DeleteOrder(id, "written")
    \/ Picking
    \/ Packing

Spec == Init /\ [][Next]_vars


\* Create and delete requests only.
NextCreateDelete ==
    \/ Tick
    \/ ListOrders
    \/ \E body \in CreateBodies : CreateOrder(body, "written")
    \/ \E id \in ReqIds(LoadOrders) : DeleteOrder(id, "written")

SpecCreateDelete == Init /\ [][NextCreateDelete]_vars

\* The write of the file may fail in either way.
NextFail ==
    \/ Tick
    \/ ListOrders
    \/ \E id \in ReqIds(LoadOrders) : GetOrder(id)
    \/ \E body \in CreateBodies, w \in WriteOutcomes : CreateOrder(body, w)
    \/ \E id \in ReqIds(LoadOrders), body \in UpdateBodies, w \in WriteOutcomes :
          UpdateOrder(id, body, w)
    \/ \E id \in ReqIds(LoadOrders), w \in WriteOutcomes : DeleteOrder(id, w)

SpecFail == Init /\ [][NextFail]_vars

\* ------------------------------------------------------------ derivation alone

\* Longest line_items of a create body of SpecDerive.
MaxPayloadItems == 3

SeqsUpTo(S, n) == UNION {[1..k -> S] : k \in 0..n}

Prices == {0, 1, 3}

PricedItems ==
    {[product_id |-> "BOX"],
     [product_id |-> "BOX", line_item_id |-> <<"L", "I", "-", "1">>]}
    \cup {[product_id |-> "BOX", price |-> p] : p \in Prices}
    \cup {[product_id |-> "BOX", price |-> p,
           line_item_id |-> <<"L", "I", "-", "1">>] : p \in Prices}

DeriveBodies ==
    {Spread(Customer, [line_items |-> items]) :
        items \in SeqsUpTo(PricedItems, MaxPayloadItems)}

\* The empty store, and the store two creates leave whose line items were
\* labelled LI-5 and LI-3 by the caller.
DeriveStores ==
    LET five == [line_items |->
                    <<[product_id |-> "BOX", price |-> 1,
                       line_item_id |-> <<"L", "I", "-", "5">>]>>]
        three == [line_items |->
                    <<[product_id |-> "KIT", price |-> 1,
                       line_item_id |-> <<"L", "I", "-", "3">>]>>]
        first == NewOrder(<<>>, five, 0)
    IN  {<<>>, <<first, NewOrder(<<first>>, three, 0)>>}

InitDerive ==
    /\ \E orders \in DeriveStores :
          /\ ordersFile = [parses |-> TRUE, orders |-> orders]
          /\ origin = [i \in 1..Len(orders) |->
                          [serial |-> i, date |-> orders[i].order_date]]
          /\ assigned = [i \in 1..Len(orders) |-> orders[i].order_id]
          /\ created = Len(orders)
    /\ productMapping = SampleMapping
    /\ now = 0
    /\ served = 0
    /\ last = NoRequest
    /\ conc = [log |-> <<>>, proc |-> Idle, pre |-> <<>>]

\* One create request on the given store.
NextDerive ==
    \E body \in DeriveBodies : served = 0 /\ CreateOrder(body, "written")

SpecDerive == InitDerive /\ [][NextDerive]_vars

\* ------------------------------------------------------------ the views alone

\* Most orders of a store of SpecViews, and most line items of one order.
MaxOrders == 2

MaxLineItems == 2

ViewItems ==
    {[product_id |-> "BOX", line_item_id |-> <<"L", "I", "-", "1">>],
     [product_id |-> "KIT", line_item_id |-> <<"L", "I", "-", "2">>],
     [product_id |-> "UNK", line_item_id |-> <<"L", "I", "-", "3">>]}

ViewStores ==
    {[i \in 1..Len(ls) |->
        [order_id |-> NatToString(i), order_total |-> 0,
         order_date |-> ToISOString(0), line_items |-> ls[i]]] :
     ls \in SeqsUpTo(SeqsUpTo(ViewItems, MaxLineItems), MaxOrders)}

InitViews ==
    /\ \E orders \in ViewStores :
          /\ ordersFile = [parses |-> TRUE, orders |-> orders]
          /\ origin = [i \in 1..Len(orders) |->
                          [serial |-> i, date |-> orders[i].order_date]]
          /\ assigned = [i \in 1..Len(orders) |-> orders[i].order_id]
          /\ created = Len(orders)
    /\ productMapping \in Mappings
    /\ now = 0
    /\ served = 0
    /\ last = NoRequest
    /\ conc = [log |-> <<>>, proc |-> Idle, pre |-> <<>>]

NextViews == Picking \/ Packing

SpecViews == InitViews /\ [][NextViews]_vars

\* ------------------------------------------------------------ two processes

\* Two server processes share orders.json; each handles one update request.
\* Within a process a handler runs to its end, but its read and its write of
\* the file are separate file-system calls with no lock between them.

\* The stores one or two creates leave.
ConcStores ==
    LET bodies == {b \in CreateBodies : "line_items" \in DOMAIN b}
        one == {<<NewOrder(<<>>, b, 0)>> : b \in bodies}
    IN  one \cup {Append(o, NewOrder(o, b, 0)) : o \in one, b \in bodies}

InitConc ==
    /\ \E orders \in ConcStores :
          /\ ordersFile = [parses |-> TRUE, orders |-> orders]
          /\ origin = [i \in 1..Len(orders) |->
                          [serial |-> i, date |-> orders[i].order_date]]
          /\ assigned = [i \in 1..Len(orders) |-> orders[i].order_id]
          /\ created = Len(orders)
          /\ conc = [log |-> <<>>, proc |-> Idle, pre |-> orders]
    /\ productMapping = SampleMapping
    /\ now = 0
    /\ served = 0
    /\ last = NoRequest

\* the file as it is now, read again before the merge
FreshSnapshot(p) == LoadOrders

\* The orders process p read when its handler started.
Snapshot(p) == conc.proc[p].orders

\* Process p receives PUT /orders/:id and reads the file; a missing order is
\* answered at once.
ConcLoad(p, id, body) ==
    /\ conc.proc[p].pc = "idle"
    /\ LET orders == LoadOrders
           index == FindIndex(orders, id)
       IN  /\ conc' = [conc EXCEPT
                  !.log = Append(@, <<p, "load">>),
                  !.proc[p] = [pc |-> IF index = 0 THEN "done" ELSE "loaded",
                               orderId |-> id, body |-> body,
                               orders |-> orders, index |-> index]]
           /\ last' = IF index = 0
                      THEN Served("update", id, <<>>, 404, NotFound, "none")
                      ELSE last
    /\ UNCHANGED <<ordersFile, productMapping, now, served, origin, assigned,
                   created>>

\* Process p merges into the orders it read, writes the file and answers.
ConcSave(p) ==
    /\ conc.proc[p].pc = "loaded"
    /\ LET me == conc.proc[p]
           merged == MergedOrder(Snapshot(p)[me.index], me.body)
       IN  /\ ordersFile' = SaveOrders(SetAt(Snapshot(p), me.index, merged),
                                       "written")
           /\ last' = Served("update", me.orderId, me.body, 200, merged,
                             "written")
    /\ conc' = [conc EXCEPT !.log = Append(@, <<p, "save">>),
                            !.proc[p].pc = "done"]
    /\ UNCHANGED <<productMapping, now, served, origin, assigned, created>>

NextConc ==
    \/ \E p \in {1, 2}, id \in ReqIds(LoadOrders), body \in UpdateBodies :
          ConcLoad(p, id, body)
    \/ \E p \in {1, 2} : ConcSave(p)

SpecConc == InitConc /\ [][NextConc]_vars

\* ------------------------------------------------------------ properties

Stored == LoadOrders

Mutating == {"create", "update", "delete"}

Succeeded == last.status \in {200, 201}

\* The line_item_ids of every line item of every order.
LineItemIdsOf(orders) ==
    UNION {{orders[i].line_items[j].line_item_id :
               j \in {k \in 1..Len(orders[i].line_items) :
                         "line_item_id" \in DOMAIN orders[i].line_items[k]}} :
           i \in {k \in 1..Len(orders) : "line_items" \in DOMAIN orders[k]}}

\* The numbers n of the ids "LI-<n>" among ids.
LINumbersOf(ids) ==
    {n \in 0..99 : (<<"L", "I", "-">> \o NatToString(n)) \in ids}

SetMax(S) == IF S = {} THEN 0 ELSE CHOOSE m \in S : \A x \in S : m >= x

\* C1: no two orders of the persisted store have the same order_id.
C1_UniqueOrderIds ==
    \A i, j \in 1..Len(Stored) :
        i # j => Stored[i].order_id # Stored[j].order_id

\* C2: an order_id that create has assigned is never assigned by a later
\* create, also when the order that held it was deleted in between.
C2_OrderIdNeverReassigned ==
    \A i, j \in 1..Len(assigned) : i # j => assigned[i] # assigned[j]

\* C3: create assigns the decimal string of the maximum of parseInt(order_id)
\* over the existing orders, plus one; "1" on an empty collection.
C3_NextIdIsMaxPlusOne ==
    (last.op = "create" /\ last.status = 201) =>
        LET parsed == {ParseInt(last.pre[i].order_id) : i \in 1..Len(last.pre)}
        IN  IF last.pre = <<>> THEN last.out.order_id = <<"1">>
            ELSE IF \E x \in parsed : x.nan
            THEN last.out.order_id = NumberToString(NaN)
            ELSE \E m \in parsed :
                    /\ \A x \in parsed : m.v >= x.v
                    /\ last.out.order_id = NumberToString(Num(m.v + 1))

\* C4: the line_item_ids create assigns are "LI-<n>", n counting up from the
\* store-wide maximum LI number + 1 in payload order, and differ from every
\* line_item_id of the store and of the other line items of the new order.
C4_AutoLineItemIdsFresh ==
    (last.op = "create" /\ last.status = 201) =>
        LET items == last.body.line_items
            made == last.out.line_items
            auto == {k \in 1..Len(items) : ~HasLineItemId(items[k])}
            base == SetMax(LINumbersOf(LineItemIdsOf(last.pre)))
            rank(k) == Cardinality({j \in auto : j <= k})
        IN  \A k \in auto :
                /\ made[k].line_item_id =
                      <<"L", "I", "-">> \o NatToString(base + rank(k))
                /\ made[k].line_item_id \notin LineItemIdsOf(last.pre)
                /\ \A j \in 1..Len(made) :
                      (j # k /\ "line_item_id" \in DOMAIN made[j]) =>
                          made[j].line_item_id # made[k].line_item_id

\* C6: a successful update changes exactly the fields the body names, each to
\* the body's value, and nothing else of the order, of the other orders or of
\* the order of the collection; order_total is not recomputed.
C6_UpdateIsShallowMerge ==
    (last.op = "update" /\ last.status = 200) =>
        LET pre == last.pre
            x == CHOOSE i \in 1..Len(pre) :
                    /\ pre[i].order_id = last.orderId
                    /\ \A j \in 1..(i - 1) : pre[j].order_id # last.orderId
        IN  /\ Len(Stored) = Len(pre)
            /\ \A j \in 1..Len(pre) : j # x => Stored[j] = pre[j]
            /\ DOMAIN Stored[x] = DOMAIN pre[x] \cup DOMAIN last.body
            /\ \A k \in DOMAIN last.body : Stored[x][k] = last.body[k]
            /\ \A k \in DOMAIN pre[x] \ DOMAIN last.body :
                  Stored[x][k] = pre[x][k]
            /\ last.out = Stored[x]

\* C6's case: line_items replaced by a sequence whose prices do not sum to
\* the kept order_total, in a store of two orders.
C6_Witness ==
    /\ last.op = "update" /\ last.status = 200
    /\ "line_items" \in DOMAIN last.body
    /\ Len(last.pre) = 2
    /\ last.out.line_items = last.body.line_items
    /\ last.out.order_total = 1
    /\ last.body.line_items = <<Boxed>>

\* C7: the order_date of a stored order is the one create gave it.
C7_OrderDateNeverModified ==
    \A i \in 1..Len(Stored) : Stored[i].order_date = origin[i].date


RECURSIVE SumFromRight(_)
SumFromRight(ns) ==
    IF ns = <<>> THEN 0
    ELSE ns[Len(ns)] + SumFromRight(SubSeq(ns, 1, Len(ns) - 1))

\* The price of each line item, 0 for a line item without one.
PricesOf(items) ==
    [i \in 1..Len(items) |->
        IF "price" \in DOMAIN items[i] THEN items[i].price ELSE 0]

\* C5: the created order's order_total is the sum of the prices of the
\* payload's line items, a missing or zero price counting 0; 0 when the
\* payload has no line item.
C5_OrderTotalIsPriceSum ==
    (last.op = "create" /\ last.status = 201) =>
        /\ last.out.order_total = SumFromRight(PricesOf(last.body.line_items))
        /\ Stored[Len(Stored)].order_total = last.out.order_total
        /\ (last.body.line_items = <<>> => last.out.order_total = 0)

\* C5's case: three line items, one without a price, summing to 4.
C5_Witness ==
    /\ last.op = "create" /\ last.status = 201
    /\ Len(last.body.line_items) = 3
    /\ \E i \in 1..3 : "price" \notin DOMAIN last.body.line_items[i]
    /\ last.out.order_total = 4

\* The products a line item decomposes into; none when it is unmapped.
DecompositionOf(mapping, li) ==
    IF /\ "product_id" \in DOMAIN li
       /\ li.product_id \in DOMAIN mapping
       /\ "products" \in DOMAIN mapping[li.product_id]
    THEN mapping[li.product_id].products ELSE <<>>

\* The places <<order, line item, product>> of the decompositions where
\* product `name` occurs.
OccurrencesOf(orders, mapping, name) ==
    UNION {UNION {{<<i, j, k>> :
                      k \in {n \in DOMAIN DecompositionOf(mapping, orders[i].line_items[j]) :
                                DecompositionOf(mapping, orders[i].line_items[j])[n].product_name = name}} :
                  j \in DOMAIN orders[i].line_items} :
           i \in DOMAIN orders}

\* The product names of a mapping.
ProductNamesOf(mapping) ==
    UNION {{DecompositionOf(mapping, [product_id |-> id])[k].product_name :
               k \in DOMAIN DecompositionOf(mapping, [product_id |-> id])} :
           id \in DOMAIN mapping}

\* C8: the picking list has exactly one entry per product name that occurs
\* in the decomposition of some line item, its quantity the number of those
\* occurrences; unmapped line items contribute nothing.
C8_PickingCountsOccurrences ==
    last.op = "picking" =>
        LET list == last.out
            occ(name) == Cardinality(OccurrencesOf(last.pre, productMapping, name))
        IN  /\ \A name \in ProductNamesOf(productMapping) :
                  Cardinality({i \in 1..Len(list) : list[i].product_name = name})
                      = IF occ(name) > 0 THEN 1 ELSE 0
            /\ \A i \in 1..Len(list) :
                  /\ list[i].product_name \in ProductNamesOf(productMapping)
                  /\ list[i].quantity = occ(list[i].product_name)

\* C8's case: two orders, an unmapped line item among them, and a product
\* that three decompositions name.
C8_Witness ==
    /\ last.op = "picking"
    /\ Len(last.pre) = 2
    /\ \E i \in 1..2 : \E j \in 1..Len(last.pre[i].line_items) :
          last.pre[i].line_items[j].product_id = "UNK"
    /\ Len(last.out) = 2
    /\ \E i \in 1..2 : last.out[i].quantity >= 3

\* The update requests of SpecConc both read the file before either wrote it.
BothReadFirst ==
    /\ Len(conc.log) = 4
    /\ conc.log[1][2] = "load" /\ conc.log[2][2] = "load"
    /\ conc.proc[1].orderId = conc.proc[2].orderId

WriteFailed ==
    /\ last.op \in Mutating
    /\ Succeeded
    /\ last.write # "written"

\* The response is the created, merged or deleted order.
AnsweredAsIfSaved ==
    LET x == CHOOSE i \in 1..Len(last.pre) :
                /\ last.pre[i].order_id = last.orderId
                /\ \A j \in 1..(i - 1) : last.pre[j].order_id # last.orderId
    IN  CASE last.op = "create" ->
                /\ last.status = 201
                /\ last.out.order_id = NewOrderId(last.pre)
                /\ Len(last.out.line_items) = Len(last.body.line_items)
          [] last.op = "update" -> last.out = Spread(last.pre[x], last.body)
          [] last.op = "delete" -> last.out = last.pre[x]

\* C10 as stated: a failed write is swallowed, the request answers success
\* and the persisted store is exactly as it was before the request.
C10_StoreLeftAsItWas ==
    WriteFailed => (AnsweredAsIfSaved /\ Stored = last.pre)

\* C10 as amended: a failed write is swallowed and the request answers
\* success; the file is as it was before the request, or it is left
\* truncated and is read back as the empty collection.
C10_WriteFailureSwallowed ==
    WriteFailed =>
        /\ AnsweredAsIfSaved
        /\ \/ (ordersFile = last.before /\ Stored = last.pre)
           \/ (~ordersFile.parses /\ Stored = <<>>)

\* C10's case: an update answered with the merged order while the store
\* still holds the order as it was.
C10_Witness ==
    /\ WriteFailed
    /\ last.op = "update"
    /\ DOMAIN last.body = {"customer_email"}
    /\ Stored = last.pre
    /\ \E i \in 1..Len(Stored) :
          /\ Stored[i].order_id = last.out.order_id
          /\ "customer_email" \in DOMAIN Stored[i]
          /\ Stored[i].customer_email # last.body.customer_email
          /\ last.out.customer_email = last.body.customer_email

=============================================================================
